---------------------------- MODULE Spec2Model ----------------------------
(***************************************************************************)
(* Verification model of the data-to-pixels codec of                      *)
(* unlimited-cloud-storage-yt:                                            *)
(*   - the packet framer   (src/src/video_decoder.cpp)                    *)
(*   - the CRC primitives  (src/src/integrity.cpp)                        *)
(*   - the DCT tables      (src/src/dct_common.h)                         *)
(*   - the frame extractor and the frame loop (src/src/video_decoder.cpp) *)
(*                                                                         *)
(* Bytes are integers 0..255, byte sequences are TLA+ sequences (index 1  *)
(* is C++ index 0).  A 32-bit word is the set of its one-bits, a subset   *)
(* of 0..31, so that every 32-bit value is represented exactly.           *)
(* std::memcpy of four bytes into a uint32_t is modelled for a            *)
(* little-endian host, the only kind the named read_u32_le is right on.   *)
(***************************************************************************)
EXTENDS Integers, Sequences, FiniteSets, TLC

VARIABLES
    \* ---- packet framer
    raw,            \* the bytes extract_data_from_frame returned
    packets,        \* what extract_packets_from_frame returned
    fpc,            \* "idle" | "ready" | "done"
    \* ---- CRC primitives
    header, payload, crc_offset, crc_size,   \* arguments of the packet CRC calls
    seed,           \* the seed argument of crc32c (a 32-bit word)
    verdict,        \* result of verify_packet_crc32c: "none","true","false","oob"
    crcval,         \* result of crc32c(payload, seed) (a 32-bit word)
    cpc,            \* "idle" | "fresh" | "stamped" | "flipped" | "seeded"
    wasValid,       \* the packet verified before the last bit flip
    \* ---- one 8x8 block
    strength,       \* COEFFICIENT_STRENGTH of the build
    pattern,        \* the bit pattern handed to the synthesiser
    block,          \* the 64 luminance bytes, row-major
    decoded,        \* the pattern the extractor recovered
    bpc,            \* "idle" | "start" | "synth" | "done"
    \* ---- extract_data_from_frame on one frame
    frame,          \* the GRAY8 plane: stride * height bytes from src_base
    stride,         \* src_stride
    out,            \* the output vector `data` the workers write into
    wnext,          \* per worker: the byte_idx of its next iteration
    wcur,           \* per worker: its private current_byte, -1 before it is computed
    xdata,          \* the vector extract_data_from_frame returned
    xpc,            \* "idle" | "start" | "running" | "returned"
    \* ---- the frame loop of VideoDecoder
    input,          \* what av_read_frame and the codec will deliver, in order
    pos,            \* how many demuxer packets av_read_frame has handed out
    eof_,           \* VideoDecoder::eof_
    frame_index_,   \* VideoDecoder::frame_index_
    results,        \* the local `results` of decode_all_frames
    lastRet,        \* what the last direct decode_next_frame call returned
    dpc,            \* "off" | "idle" | "in_all" | "returned" | "thrown"
    callPos,        \* pos when decode_all_frames was entered
    nreads,         \* the av_read_frame calls made so far
    ncalls          \* the direct decode_next_frame calls made so far

framerVars == <<raw, packets, fpc>>
blockVars  == <<strength, pattern, block, decoded, bpc>>
frameVars  == <<frame, stride, out, wnext, wcur, xdata, xpc>>
decVars    == <<input, pos, eof_, frame_index_, results, lastRet, dpc, callPos, nreads, ncalls>>
crcVars    == <<header, payload, crc_offset, crc_size, seed, verdict, crcval, cpc, wasValid>>
vars       == <<framerVars, crcVars, blockVars, frameVars, decVars>>

(***************************************************************************)
(* Generic helpers                                                         *)
(***************************************************************************)
RECURSIVE Pow2(_)
Pow2(n) == IF n = 0 THEN 1 ELSE 2 * Pow2(n - 1)

\* bit k of the byte b
ByteBit(b, k) == (b \div Pow2(k)) % 2 = 1

RECURSIVE Repeat(_, _)
Repeat(s, n) == IF n = 0 THEN <<>> ELSE s \o Repeat(s, n - 1)

Take(s, n) == SubSeq(s, 1, IF n < Len(s) THEN n ELSE Len(s))

RECURSIVE Flatten(_)
Flatten(ss) == IF ss = <<>> THEN <<>> ELSE Head(ss) \o Flatten(Tail(ss))

\* all sequences over S of length at most n
RECURSIVE SeqsUpTo(_, _)
SeqsUpTo(S, n) ==
    IF n = 0 THEN {<<>>}
    ELSE LET shorter == SeqsUpTo(S, n - 1)
         IN  shorter \cup {Append(s, x) : s \in {t \in shorter : Len(t) = n - 1}, x \in S}

(***************************************************************************)
(* configuration.h (not among the source files): the wire constants.      *)
(* V2 = 0x02 is the specification's reference value; the sizes are small  *)
(* stand-ins that keep HEADER_SIZE < HEADER_SIZE_V2 and a header long     *)
(* enough for magic and version.                                          *)
(***************************************************************************)
MAGIC_ID == 67305985          \* 0x04030201: little-endian bytes 1, 2, 3, 4
VERSION_ID == 1
VERSION_ID_V2 == 2
HEADER_SIZE == 6
HEADER_SIZE_V2 == 8
SYMBOL_SIZE_BYTES == 3

\* the four bytes std::memcpy stores for a uint32_t on a little-endian host
U32BytesLE(n) == [k \in 1..4 |-> (n \div Pow2(8 * (k - 1))) % 256]

(***************************************************************************)
(* VideoDecoder::extract_packets_from_frame                                *)
(***************************************************************************)
\* a size that takes every version other than VERSION_ID for the long header
PacketSizeNotV1(r) ==
    IF Len(r) >= 5 /\ r[5] # VERSION_ID
    THEN HEADER_SIZE_V2 + SYMBOL_SIZE_BYTES
    ELSE HEADER_SIZE + SYMBOL_SIZE_BYTES

\* lines 172-178: the packet size, chosen once from raw_data[4]
packet_size(r) ==
    IF Len(r) >= 5 /\ r[5] = VERSION_ID_V2
    THEN HEADER_SIZE_V2 + SYMBOL_SIZE_BYTES
    ELSE HEADER_SIZE + SYMBOL_SIZE_BYTES

\* lines 182-186: memcpy of raw_data[offset .. offset+4) compared with MAGIC_ID
MagicAt(r, offset) == SubSeq(r, offset + 1, offset + 4) = U32BytesLE(MAGIC_ID)

\* a loop that skips a bad packet instead of stopping (resynchronises)
RECURSIVE ExtractLoopResync(_, _, _, _)
ExtractLoopResync(r, ps, offset, acc) ==
    IF ~(offset + ps <= Len(r)) THEN acc
    ELSE IF offset + 4 <= Len(r) /\ ~MagicAt(r, offset)
         THEN ExtractLoopResync(r, ps, offset + ps, acc)
         ELSE ExtractLoopResync(r, ps, offset + ps,
                                Append(acc, SubSeq(r, offset + 1, offset + ps)))

\* lines 179-194: the while loop, from `offset` with `acc` already pushed
RECURSIVE ExtractLoop(_, _, _, _)
ExtractLoop(r, ps, offset, acc) ==
    IF ~(offset + ps <= Len(r)) THEN acc
    ELSE IF offset + 4 <= Len(r) /\ ~MagicAt(r, offset)
         THEN acc
         ELSE ExtractLoop(r, ps, offset + ps,
                          Append(acc, SubSeq(r, offset + 1, offset + ps)))

\* a framer that sizes every packet by its own version byte
RECURSIVE ExtractPerPacket(_, _, _)
ExtractPerPacket(r, offset, acc) ==
    LET ps == packet_size(SubSeq(r, offset + 1, Len(r)))
    IN  IF ~(offset + ps <= Len(r)) THEN acc
        ELSE IF ~MagicAt(r, offset) THEN acc
        ELSE ExtractPerPacket(r, offset + ps,
                              Append(acc, SubSeq(r, offset + 1, offset + ps)))

ExtractPacketsPerPacket(r) == ExtractPerPacket(r, 0, <<>>)

\* lines 168-197
extract_packets_from_frame(r) == ExtractLoop(r, packet_size(r), 0, <<>>)

(***************************************************************************)
(* Framer inputs: every concatenation of at most MaxChunks chunks, a chunk*)
(* being a whole packet of either size and any version, a packet with one *)
(* magic byte damaged, a truncated packet or a few stray bytes.           *)
(***************************************************************************)
MaxChunks == 3

MagicLE == U32BytesLE(MAGIC_ID)
PS1 == HEADER_SIZE + SYMBOL_SIZE_BYTES
PS2 == HEADER_SIZE_V2 + SYMBOL_SIZE_BYTES

\* magic, version, then `fill` repeated up to length n
MkPacket(ver, n, fill) == Take(MagicLE \o <<ver>> \o Repeat(fill, n), n)

Chunks ==
    {MkPacket(v, n, f) : v \in {VERSION_ID, VERSION_ID_V2, 7}, n \in {PS1, PS2},
                         f \in {<<0>>, MagicLE}}
    \cup {[MkPacket(v, PS1, <<0>>) EXCEPT ![k] = 9] : v \in {VERSION_ID, VERSION_ID_V2}, k \in {1, 4}}
    \cup {[MkPacket(VERSION_ID_V2, PS2, <<0>>) EXCEPT ![4] = 0]}
    \cup {Take(MagicLE \o <<VERSION_ID_V2>>, n) : n \in 1..5}
    \cup {<<0>>, <<7, 7, 7>>}

FramerInputs == {Flatten(cs) : cs \in SeqsUpTo(Chunks, MaxChunks)}

FramerIdle == raw = <<>> /\ packets = <<>> /\ fpc = "idle"

FramerInit == raw \in FramerInputs /\ packets = <<>> /\ fpc = "ready"

ExtractPackets ==
    /\ fpc = "ready"
    /\ packets' = extract_packets_from_frame(raw)
    /\ fpc' = "done"
    /\ UNCHANGED <<raw, crcVars, blockVars, frameVars, decVars>>

(***************************************************************************)
(* CRC-32/MPEG-2 (libs/CRC.h, CRC::CRC_32_MPEG2): polynomial 0x04C11DB7,  *)
(* initial value 0xFFFFFFFF, no reflection, no final XOR.                 *)
(***************************************************************************)
Word == 0..31
AllOnes == Word
Poly == {0, 1, 2, 4, 5, 7, 8, 10, 11, 12, 16, 22, 23, 26}

Xor(a, b) == (a \ b) \cup (b \ a)
Shl1(w) == {i + 1 : i \in {j \in w : j < 31}}

\* n message bits through the register, most significant bit first
RECURSIVE CrcBits(_, _)
CrcBits(reg, n) ==
    IF n = 0 THEN reg
    ELSE IF 31 \in reg THEN CrcBits(Xor(Shl1(reg), Poly), n - 1)
    ELSE CrcBits(Shl1(reg), n - 1)

\* the byte b as the top eight bits of a word
ByteTop(b) == {24 + k : k \in {j \in 0..7 : ByteBit(b, j)}}

CrcByte(reg, b) == CrcBits(Xor(reg, ByteTop(b)), 8)

RECURSIVE CrcRemainder(_, _)
CrcRemainder(reg, data) ==
    IF data = <<>> THEN reg ELSE CrcRemainder(CrcByte(reg, Head(data)), Tail(data))

\* CRC::Calculate(data, size, table, crc): continues from a previous result
CRC_Continue(data, crc) == CrcRemainder(crc, data)

\* CRC::Calculate(data, size, table)
CRC_Calculate(data) == CrcRemainder(AllOnes, data)

(***************************************************************************)
(* integrity.cpp                                                           *)
(***************************************************************************)
\* the value of a byte sequence read as a little-endian word
WordOfLE(bs) == {8 * (k - 1) + j : k \in 1..Len(bs), j \in 0..7} \cap
                {i \in Word : ByteBit(bs[(i \div 8) + 1], i % 8)}

\* byte k (0 = least significant) of the word w: (w >> 8k) & 0xFF
RECURSIVE SumBits(_)
SumBits(S) == IF S = {} THEN 0
              ELSE LET x == CHOOSE y \in S : TRUE IN Pow2(x) + SumBits(S \ {x})

WordByte(w, k) == SumBits({i - 8 * k : i \in {j \in w : j \div 8 = k}})

\* lines 39-44: seedBytes
SeedBytes(s) == <<WordByte(s, 0), WordByte(s, 1), WordByte(s, 2), WordByte(s, 3)>>

\* a crc32c that loads the seed into the register instead of prepending it
Crc32cSeedAsInit(data, s) ==
    IF s # {} THEN CrcRemainder(s, data) ELSE CRC_Calculate(data)

\* lines 37-53
crc32c(data, s) ==
    IF s # {}
    THEN CRC_Continue(data, CRC_Calculate(SeedBytes(s)))
    ELSE CRC_Calculate(data)

\* std::size_t arithmetic wraps; SizeMod stands for 2^64
SizeMod == 16
SizeAdd(a, b) == (a + b) % SizeMod

\* a packet CRC that feeds the stored checksum bytes instead of zeros
PacketCrcNoZero(h, p, off, size) ==
    LET c1 == CRC_Calculate(SubSeq(h, 1, off))
        c2 == IF size = 4 THEN CRC_Continue(SubSeq(h, off + 1, off + 4), c1) ELSE c1
        after_crc == SizeAdd(off, size)
        c3 == IF after_crc < Len(h) THEN CRC_Continue(SubSeq(h, after_crc + 1, Len(h)), c2)
              ELSE c2
    IN  CRC_Continue(p, c3)

\* lines 66-86, for crc_offset <= header.size()
packet_crc32c(h, p, off, size) ==
    LET c1 == CRC_Calculate(SubSeq(h, 1, off))
        c2 == IF size = 4 THEN CRC_Continue(<<0, 0, 0, 0>>, c1) ELSE c1
        after_crc == SizeAdd(off, size)
        c3 == IF after_crc < Len(h) THEN CRC_Continue(SubSeq(h, after_crc + 1, Len(h)), c2)
              ELSE c2
    IN  CRC_Continue(p, c3)

\* line 72: CRC::Calculate(hdr, crc_offset, table) reads hdr[0 .. crc_offset)
PacketCrcReadsOutside(h, off) == off > Len(h)

\* lines 88-94, for a read that stays inside the buffer
read_u32_le(buffer, byteOffset) ==
    IF SizeAdd(byteOffset, 4) <= Len(buffer)
    THEN WordOfLE(SubSeq(buffer, byteOffset + 1, byteOffset + 4))
    ELSE {}

\* line 91: the memcpy runs when the wrapped sum passes the test, and then
\* reads buffer[byteOffset .. byteOffset+4)
ReadReadsOutside(buffer, byteOffset) ==
    SizeAdd(byteOffset, 4) <= Len(buffer) /\ byteOffset + 4 > Len(buffer)

\* a verifier that accepts any checksum size
VerifyAnySize(h, p, off, size) ==
    IF SizeAdd(off, 4) > Len(h) THEN "false"
    ELSE IF ReadReadsOutside(h, off) \/ PacketCrcReadsOutside(h, off) THEN "oob"
    ELSE IF read_u32_le(h, off) = packet_crc32c(h, p, off, size) THEN "true" ELSE "false"

\* a verifier that compares only the low 16 bits of the checksum
VerifyLow16(h, p, off, size) ==
    IF size # 4 THEN "false"
    ELSE IF SizeAdd(off, 4) > Len(h) THEN "false"
    ELSE IF ReadReadsOutside(h, off) \/ PacketCrcReadsOutside(h, off) THEN "oob"
    ELSE IF read_u32_le(h, off) \cap (0..15) = packet_crc32c(h, p, off, size) \cap (0..15)
         THEN "true" ELSE "false"

\* lines 96-110.  "oob": the call read outside the header (a wrapped
\* crc_offset + 4 passed both tests; CRC::Calculate then walks crc_offset
\* bytes from the header's start and the process faults): it returns nothing.
verify_packet_crc32c(h, p, off, size) ==
    IF size # 4 THEN "false"
    ELSE IF SizeAdd(off, 4) > Len(h) THEN "false"
    ELSE IF ReadReadsOutside(h, off) \/ PacketCrcReadsOutside(h, off) THEN "oob"
    ELSE IF read_u32_le(h, off) = packet_crc32c(h, p, off, size) THEN "true" ELSE "false"

(***************************************************************************)
(* CRC scenarios: a header, a payload and the checksum place are drawn;   *)
(* the sender stamps the checksum, the channel flips one bit, the         *)
(* receiver verifies; crc32c is called on the payload with a seed.        *)
(***************************************************************************)
MaxHeader == 6

Headers ==
    {Take(<<1, 2, 3, 4, 2, 0, 255, 128, 7>>, n) : n \in 0..MaxHeader}
    \cup {Take(<<0, 0, 0, 0, 0, 0, 0, 0, 0>>, n) : n \in 4..MaxHeader}
    \cup {Take(<<255, 255, 255, 255, 255, 1, 1, 1, 1>>, n) : n \in 4..MaxHeader}
Payloads == {<<>>, <<0>>, <<165>>, <<60, 129>>}
CrcSizes == {0, 4, 5}
Seeds == {{}, {0}, {8}, {31}, Word, {0, 9, 18, 27}}

\* the sender's side of scenario S5: the checksum field set to the packet CRC
WriteU32LE(h, off, w) ==
    [k \in 1..Len(h) |-> IF k > off /\ k <= off + 4 THEN WordByte(w, k - off - 1) ELSE h[k]]

FlipByte(b, k) == IF ByteBit(b, k) THEN b - Pow2(k) ELSE b + Pow2(k)
FlipIn(bs, i, k) == [bs EXCEPT ![i] = FlipByte(bs[i], k)]

CrcIdle ==
    /\ header = <<>> /\ payload = <<>> /\ crc_offset = 0 /\ crc_size = 0
    /\ seed = {} /\ verdict = "none" /\ crcval = {} /\ cpc = "idle" /\ wasValid = FALSE

CrcInit ==
    /\ header \in Headers
    /\ payload \in Payloads
    /\ crc_offset \in 0..(SizeMod - 1)
    /\ crc_size \in CrcSizes
    /\ seed = {} /\ verdict = "none" /\ crcval = {} /\ cpc = "fresh" /\ wasValid = FALSE

Stamp ==
    /\ cpc = "fresh" /\ verdict = "none"
    /\ crc_size = 4 /\ crc_offset + 4 <= Len(header)
    /\ crcval' = packet_crc32c(header, payload, crc_offset, crc_size)
    /\ header' = WriteU32LE(header, crc_offset, crcval')
    /\ cpc' = "stamped"
    /\ UNCHANGED <<payload, crc_offset, crc_size, seed, verdict, wasValid, framerVars, blockVars, frameVars, decVars>>

Verify ==
    /\ cpc \in {"fresh", "stamped", "flipped"} /\ verdict = "none"
    /\ verdict' = verify_packet_crc32c(header, payload, crc_offset, crc_size)
    /\ UNCHANGED <<header, payload, crc_offset, crc_size, seed, crcval, cpc, wasValid, framerVars, blockVars, frameVars, decVars>>

FlipHeaderBit ==
    /\ cpc \in {"fresh", "stamped"} /\ verdict = "true"
    /\ \E i \in 1..Len(header), k \in 0..7 : header' = FlipIn(header, i, k)
    /\ verdict' = "none" /\ cpc' = "flipped" /\ wasValid' = TRUE
    /\ UNCHANGED <<payload, crc_offset, crc_size, seed, crcval, framerVars, blockVars, frameVars, decVars>>

FlipPayloadBit ==
    /\ cpc \in {"fresh", "stamped"} /\ verdict = "true"
    /\ \E i \in 1..Len(payload), k \in 0..7 : payload' = FlipIn(payload, i, k)
    /\ verdict' = "none" /\ cpc' = "flipped" /\ wasValid' = TRUE
    /\ UNCHANGED <<header, crc_offset, crc_size, seed, crcval, framerVars, blockVars, frameVars, decVars>>

Crc32cCall ==
    /\ cpc = "fresh" /\ verdict = "none"
    /\ \E s \in Seeds : seed' = s /\ crcval' = crc32c(payload, s)
    /\ cpc' = "seeded"
    /\ UNCHANGED <<header, payload, crc_offset, crc_size, verdict, wasValid, framerVars, blockVars, frameVars, decVars>>

(***************************************************************************)
(* dct_common.h.  float is modelled in fixed point with 16 fractional     *)
(* bits (a real r is the integer nearest r * 2^16); a product is rounded  *)
(* to nearest.  For BITS_PER_BLOCK = 4 and the strengths below the        *)
(* pattern table obtained this way equals, byte for byte, the table the   *)
(* IEEE single-precision computation of get_precomputed_blocks gives.     *)
(***************************************************************************)
Q == 256 * 256

Abs(a) == IF a < 0 THEN -a ELSE a

\* a * b of two fixed-point numbers, in 32-bit-safe limbs of 8 bits
MulQ(a, b) ==
    LET a1 == Abs(a) \div 256
        a0 == Abs(a) % 256
        b1 == Abs(b) \div 256
        b0 == Abs(b) % 256
        r  == a1 * b1 + (a1 * b0 + a0 * b1 + (a0 * b0 + 128) \div 256 + 128) \div 256
    IN  IF (a < 0) = (b < 0) THEN r ELSE -r

\* configuration.h: bits per block (the specification's reference value)
BITS_PER_BLOCK == 4

\* line 12
EMBED_POSITIONS == << <<0, 1>>, <<1, 0>>, <<1, 1>>, <<0, 2>> >>

\* cos(k * pi / 16) for k = 0..8
CosFirstQuadrant == <<65536, 64277, 60547, 54491, 46341, 36410, 25080, 12785, 0>>

CosPi16(k) ==
    LET m == k % 32
        n == IF m > 16 THEN 32 - m ELSE m
    IN  IF n <= 8 THEN CosFirstQuadrant[n + 1] ELSE -CosFirstQuadrant[17 - n]

\* lines 23-35: data[i][j] = cos((2i + 1) * j * PI / 16)
CosineTable == [i \in 0..7 |-> [j \in 0..7 |-> CosPi16((2 * i + 1) * j)]]

\* lines 37-39
alpha_f(u) == IF u = 0 THEN 46341 ELSE Q

\* line 51
dc_value == MulQ(MulQ(Q \div 4, alpha_f(0)), alpha_f(0)) * 64 * 128

\* lines 53-59
dc_image ==
    [x \in 0..7 |-> [y \in 0..7 |->
        MulQ(MulQ(MulQ(MulQ(MulQ(Q \div 4, alpha_f(0)), alpha_f(0)), dc_value),
                  CosineTable[x][0]), CosineTable[y][0])]]

\* lines 61-71, for strength S
embed_basis(S) ==
    [b \in 0..(BITS_PER_BLOCK - 1) |->
        LET u == EMBED_POSITIONS[b + 1][1]
            v == EMBED_POSITIONS[b + 1][2]
            scale == MulQ(MulQ(Q \div 4, alpha_f(u)), alpha_f(v)) * S
        IN  [x \in 0..7 |-> [y \in 0..7 |->
                MulQ(MulQ(scale, CosineTable[x][u]), CosineTable[y][v])]]]

\* line 78: bit (BITS_PER_BLOCK - 1 - b) of the pattern
PatternBit(p, b) == (p \div Pow2(BITS_PER_BLOCK - 1 - b)) % 2

\* line 81
Clamp(v, lo, hi) == IF v < lo THEN lo ELSE IF v > hi THEN hi ELSE v

\* lines 76-82: one pixel of one pattern; the cast truncates
PatternPixel(basis, p, y, x) ==
    LET term(b) == IF PatternBit(p, b) = 1 THEN basis[b][y][x] ELSE -basis[b][y][x]
        val == dc_image[y][x] + term(0) + term(1) + term(2) + term(3)
    IN  Clamp(val, 0, 255 * Q) \div Q

\* a table built with the pattern's bits taken least significant first
PatternBlockLsbFirst(S, p) ==
    LET basis == embed_basis(S)
        rev == PatternBit(p, 0) + 2 * PatternBit(p, 1) + 4 * PatternBit(p, 2)
               + 8 * PatternBit(p, 3)
    IN  [k \in 1..64 |-> PatternPixel(basis, rev, (k - 1) \div 8, (k - 1) % 8)]

\* lines 73-85: patterns[p], flattened row-major (index y * 8 + x)
PatternBlock(S, p) ==
    LET basis == embed_basis(S)
    IN  [k \in 1..64 |-> PatternPixel(basis, p, (k - 1) \div 8, (k - 1) % 8)]

\* the strengths the tables are built for
Strengths == {1, 32, 150, 1000}
NUM_PATTERNS == Pow2(BITS_PER_BLOCK)

\* lines 46-90: get_precomputed_blocks, one table per strength
PrecomputedBlocks ==
    [S \in Strengths |-> [p \in 0..(NUM_PATTERNS - 1) |-> PatternBlock(S, p)]]

\* projections indexed the other way round (y * 8 + x)
ProjectionTransposed(b) ==
    LET u == EMBED_POSITIONS[b + 1][1]
        v == EMBED_POSITIONS[b + 1][2]
    IN  [k \in 1..64 |-> MulQ(CosineTable[(k - 1) % 8][u], CosineTable[(k - 1) \div 8][v])]

\* lines 100-106: vectors[b][x * 8 + y] = data[x][u] * data[y][v]
Projection(b) ==
    LET u == EMBED_POSITIONS[b + 1][1]
        v == EMBED_POSITIONS[b + 1][2]
    IN  [k \in 1..64 |-> MulQ(CosineTable[(k - 1) \div 8][u], CosineTable[(k - 1) % 8][v])]

\* lines 96-111: get_decoder_projections
DecoderProjections == [b \in 0..(BITS_PER_BLOCK - 1) |-> Projection(b)]

(***************************************************************************)
(* VideoDecoder::extract_data_from_frame, the work on one block            *)
(***************************************************************************)
\* dot_product_64(a, v): the sum of a[k] * v[k] over the 64 entries
DotRow(a, v, y) ==
    a[8 * y + 1] * v[8 * y + 1] + a[8 * y + 2] * v[8 * y + 2]
    + a[8 * y + 3] * v[8 * y + 3] + a[8 * y + 4] * v[8 * y + 4]
    + a[8 * y + 5] * v[8 * y + 5] + a[8 * y + 6] * v[8 * y + 6]
    + a[8 * y + 7] * v[8 * y + 7] + a[8 * y + 8] * v[8 * y + 8]

dot_product_64(a, v) ==
    DotRow(a, v, 0) + DotRow(a, v, 1) + DotRow(a, v, 2) + DotRow(a, v, 3)
    + DotRow(a, v, 4) + DotRow(a, v, 5) + DotRow(a, v, 6) + DotRow(a, v, 7)

\* a decision that counts a zero sum as 1
BitOfSumGeq(sum) == IF sum >= 0 THEN 1 ELSE 0

\* line 158: sum > 0.0f ? 1 : 0
BitOfSum(sum) == IF sum > 0 THEN 1 ELSE 0

\* lines 156-159: the loop over b, on the uint8_t current_byte
RECURSIVE BitLoop(_, _, _)
BitLoop(current_byte, block_flat, b) ==
    IF b = BITS_PER_BLOCK THEN current_byte
    ELSE BitLoop((current_byte * 2 + BitOfSum(dot_product_64(block_flat, DecoderProjections[b]))) % 256,
                 block_flat, b + 1)

(***************************************************************************)
(* One block: the synthesiser's table entry handed to the extractor       *)
(***************************************************************************)
BlockIdle ==
    /\ strength = 0 /\ pattern = 0 /\ block = <<>> /\ decoded = 0 /\ bpc = "idle"

BlockInit ==
    /\ strength \in Strengths
    /\ pattern \in 0..(NUM_PATTERNS - 1)
    /\ block = <<>> /\ decoded = 0 /\ bpc = "start"

Synthesise ==
    /\ bpc = "start"
    /\ block' = PrecomputedBlocks[strength][pattern]
    /\ bpc' = "synth"
    /\ UNCHANGED <<strength, pattern, decoded, framerVars, crcVars, frameVars, decVars>>

ExtractBlock ==
    /\ bpc = "synth"
    /\ decoded' = BitLoop(0, block, 0)
    /\ bpc' = "done"
    /\ UNCHANGED <<strength, pattern, block, framerVars, crcVars, frameVars, decVars>>

(***************************************************************************)
(* VideoDecoder::extract_data_from_frame: the parallel loop               *)
(***************************************************************************)
\* layout_ (compute_frame_layout): the frame is BlocksPerRow x BlocksPerCol blocks
BlocksPerRow == 3
BlocksPerCol == 2
\* the threads of the OpenMP team
NumThreads == 2

blocks_per_row == BlocksPerRow
total_blocks == BlocksPerRow * BlocksPerCol
\* line 122
blocks_per_byte == 8 \div BITS_PER_BLOCK
\* line 124
total_bytes == total_blocks \div blocks_per_byte

FrameWidth == 8 * BlocksPerRow
FrameHeight == 8 * BlocksPerCol

\* lines 150-154: block_flat of the block at pixel origin (base_x, base_y)
BlockFlat(fr, st, base_x, base_y) ==
    [k \in 1..64 |-> fr[(base_y + ((k - 1) \div 8)) * st + base_x + ((k - 1) % 8) + 1]]

\* an origin with rows and columns exchanged
BlockOriginSwapped(block_idx) ==
    <<(block_idx \div blocks_per_row) * 8, (block_idx % blocks_per_row) * 8>>

\* lines 144-147: <<base_x, base_y>> of a block
BlockOrigin(block_idx) ==
    <<(block_idx % blocks_per_row) * 8, (block_idx \div blocks_per_row) * 8>>

\* lines 142-160: the loop over sub, on the uint8_t current_byte
RECURSIVE SubLoop(_, _, _, _, _)
SubLoop(fr, st, byte_idx, sub, current_byte) ==
    IF sub = blocks_per_byte THEN current_byte
    ELSE LET o == BlockOrigin(byte_idx * blocks_per_byte + sub)
         IN  SubLoop(fr, st, byte_idx, sub + 1,
                     BitLoop(current_byte, BlockFlat(fr, st, o[1], o[2]), 0))

\* schedule(static): contiguous chunks, the first total_bytes % NumThreads
\* threads take one iteration more
ChunkSize(t) ==
    (total_bytes \div NumThreads) + (IF t < total_bytes % NumThreads THEN 1 ELSE 0)

RECURSIVE ChunkStart(_)
ChunkStart(t) == IF t = 0 THEN 0 ELSE ChunkStart(t - 1) + ChunkSize(t - 1)

ChunkEnd(t) == ChunkStart(t) + ChunkSize(t)

Threads == 0..(NumThreads - 1)

\* a store at the iteration's number within the thread's chunk
StoreIndexLocal(t) == wnext[t] - ChunkStart(t)

\* line 162: out[byte_idx]
StoreIndex(t) == wnext[t]

(***************************************************************************)
(* Frames: a payload written block by block from the pattern table (a     *)
(* byte's high bits in its first block), optionally brightened by 3, in a *)
(* plane whose rows are `pad` bytes longer than the picture.              *)
(***************************************************************************)
FrameStrength == 150

FramePayloads ==
    {[i \in 1..total_bytes |-> (a + m * i) % 256] : a \in {0, 165}, m \in {0, 87, 151}}

TilePattern(v, k) ==
    IF k \div blocks_per_byte >= Len(v) THEN 0
    ELSE (v[(k \div blocks_per_byte) + 1]
            \div Pow2(BITS_PER_BLOCK * (blocks_per_byte - 1 - (k % blocks_per_byte))))
         % Pow2(BITS_PER_BLOCK)

MkFrame(v, pad, shift) ==
    LET st == FrameWidth + pad
    IN  [idx \in 1..(st * FrameHeight) |->
            LET r == (idx - 1) \div st
                c == (idx - 1) % st
            IN  IF c >= FrameWidth THEN 99
                ELSE Clamp(PrecomputedBlocks[FrameStrength]
                               [TilePattern(v, (r \div 8) * BlocksPerRow + (c \div 8))]
                               [(r % 8) * 8 + (c % 8) + 1] + shift, 0, 255)]

FrameIdle ==
    /\ frame = <<>> /\ stride = 0 /\ out = <<>> /\ wnext = <<>> /\ wcur = <<>>
    /\ xdata = <<>> /\ xpc = "idle"

FrameInit ==
    /\ \E v \in FramePayloads, pad \in {0, 8}, shift \in {0, 3} :
          /\ frame = MkFrame(v, pad, shift)
          /\ stride = FrameWidth + pad
    /\ out = <<>>
    /\ wnext = [t \in Threads |-> 0]
    /\ wcur = [t \in Threads |-> -1]
    /\ xdata = <<>>
    /\ xpc = "start"

\* line 135, and the team's threads taking their chunks
ExtractStart ==
    /\ xpc = "start"
    /\ out' = [i \in 1..total_bytes |-> 0]
    /\ wnext' = [t \in Threads |-> ChunkStart(t)]
    /\ xpc' = "running"
    /\ UNCHANGED <<frame, stride, wcur, xdata, framerVars, crcVars, blockVars, decVars>>

\* lines 140-160: one iteration up to its store
WorkerCompute(t) ==
    /\ xpc = "running"
    /\ wnext[t] < ChunkEnd(t)
    /\ wcur[t] = -1
    /\ wcur' = [wcur EXCEPT ![t] = SubLoop(frame, stride, wnext[t], 0, 0)]
    /\ UNCHANGED <<frame, stride, out, wnext, xdata, xpc, framerVars, crcVars, blockVars, decVars>>

\* line 162
WorkerStore(t) ==
    /\ xpc = "running"
    /\ wcur[t] # -1
    /\ out' = [out EXCEPT ![StoreIndex(t) + 1] = wcur[t]]
    /\ wnext' = [wnext EXCEPT ![t] = wnext[t] + 1]
    /\ wcur' = [wcur EXCEPT ![t] = -1]
    /\ UNCHANGED <<frame, stride, xdata, xpc, framerVars, crcVars, blockVars, decVars>>

\* the end of the parallel region, and line 165
ExtractReturn ==
    /\ xpc = "running"
    /\ \A t \in Threads : wnext[t] = ChunkEnd(t) /\ wcur[t] = -1
    /\ xdata' = out
    /\ xpc' = "returned"
    /\ UNCHANGED <<frame, stride, out, wnext, wcur, framerVars, crcVars, blockVars, decVars>>

(***************************************************************************)
(* VideoDecoder::decode_next_frame and decode_all_frames.  The demuxer    *)
(* and the codec are the environment: `input` lists, per demuxer packet,  *)
(* what happens to it:                                                    *)
(*   "other"    a packet of another stream                  (line 205)    *)
(*   "sendfail" avcodec_send_packet fails                   (line 213)    *)
(*   "again"    avcodec_receive_frame says EAGAIN           (line 218)    *)
(*   "deof"     avcodec_receive_frame says AVERROR_EOF      (line 221)    *)
(*   "derr"     avcodec_receive_frame fails otherwise       (line 225)    *)
(*   "frameA", "frameB", "frameC"  a frame is delivered                   *)
(* and av_read_frame fails once the list is used up.                      *)
(***************************************************************************)
MaxEvents == 3
MaxCalls == 2

FrameEvents == {"frameA", "frameB", "frameC"}
Events == {"other", "sendfail", "again", "deof", "derr"} \cup FrameEvents

\* the bytes extract_data_from_frame yields for the delivered frame
FrameRaw(e) ==
    CASE e = "frameA" -> MkPacket(VERSION_ID_V2, PS2, <<0>>) \o MkPacket(VERSION_ID_V2, PS2, MagicLE)
      [] e = "frameB" -> MkPacket(VERSION_ID, PS1, <<0>>) \o <<7, 7, 7>>
      [] OTHER        -> <<0>>

\* a result list that puts a frame's packets in front
PushAllFront(res, pkts) == pkts \o res

\* lines 246-248: every packet of the frame is pushed onto results
PushAll(res, pkts) == res \o pkts

\* lines 204-240: the while loop, from demuxer position p
RECURSIVE ReadLoop(_, _, _, _)
ReadLoop(inp, p, fi, reads) ==
    IF p >= Len(inp)
    THEN [pos |-> p, eof |-> TRUE, fi |-> fi, ret |-> <<>>, thrown |-> FALSE,
          reads |-> reads + 1]
    ELSE LET e == inp[p + 1]
         IN  CASE e \in {"other", "sendfail", "again"} ->
                    ReadLoop(inp, p + 1, fi, reads + 1)
               [] e = "deof" ->
                    [pos |-> p + 1, eof |-> TRUE, fi |-> fi, ret |-> <<>>,
                     thrown |-> FALSE, reads |-> reads + 1]
               [] e = "derr" ->
                    [pos |-> p + 1, eof |-> FALSE, fi |-> fi, ret |-> <<>>,
                     thrown |-> TRUE, reads |-> reads + 1]
               [] OTHER ->
                    [pos |-> p + 1, eof |-> FALSE, fi |-> fi + 1,
                     ret |-> extract_packets_from_frame(FrameRaw(e)),
                     thrown |-> FALSE, reads |-> reads + 1]

\* lines 199-241
decode_next_frame(inp, p, eof, fi, reads) ==
    IF eof
    THEN [pos |-> p, eof |-> eof, fi |-> fi, ret |-> <<>>, thrown |-> FALSE,
          reads |-> reads]
    ELSE ReadLoop(inp, p, fi, reads)

DecIdle ==
    /\ input = <<>> /\ pos = 0 /\ eof_ = FALSE /\ frame_index_ = 0
    /\ results = <<>> /\ lastRet = <<>> /\ dpc = "off" /\ callPos = 0
    /\ nreads = 0 /\ ncalls = 0

DecInit ==
    /\ input \in SeqsUpTo(Events, MaxEvents)
    /\ pos = 0 /\ eof_ = FALSE /\ frame_index_ = 0
    /\ results = <<>> /\ lastRet = <<>> /\ dpc = "idle" /\ callPos = 0
    /\ nreads = 0 /\ ncalls = 0

\* a caller's own decode_next_frame call, outside decode_all_frames
CallDecodeNext ==
    /\ dpc \in {"idle", "returned", "thrown"}
    /\ ncalls < MaxCalls
    /\ LET r == decode_next_frame(input, pos, eof_, frame_index_, nreads)
       IN  /\ pos' = r.pos
           /\ eof_' = r.eof
           /\ frame_index_' = r.fi
           /\ nreads' = r.reads
           /\ lastRet' = r.ret
    /\ ncalls' = ncalls + 1
    /\ UNCHANGED <<input, results, dpc, callPos, framerVars, crcVars, blockVars, frameVars>>

\* line 244
CallDecodeAll ==
    /\ dpc \in {"idle", "returned", "thrown"}
    /\ dpc' = "in_all"
    /\ results' = <<>>
    /\ callPos' = pos
    /\ UNCHANGED <<input, pos, eof_, frame_index_, lastRet, nreads, ncalls,
                   framerVars, crcVars, blockVars, frameVars>>

\* lines 245-249: one turn of the loop; an exception leaves the function
AllIterate ==
    /\ dpc = "in_all"
    /\ ~eof_
    /\ LET r == decode_next_frame(input, pos, eof_, frame_index_, nreads)
       IN  /\ pos' = r.pos
           /\ eof_' = r.eof
           /\ frame_index_' = r.fi
           /\ nreads' = r.reads
           /\ results' = IF r.thrown THEN <<>> ELSE PushAll(results, r.ret)
           /\ dpc' = IF r.thrown THEN "thrown" ELSE "in_all"
    /\ UNCHANGED <<input, lastRet, callPos, ncalls, framerVars, crcVars, blockVars, frameVars>>

\* lines 245 and 250: the loop ends, results is returned
AllReturn ==
    /\ dpc = "in_all"
    /\ eof_
    /\ dpc' = "returned"
    /\ UNCHANGED <<input, pos, eof_, frame_index_, results, lastRet, callPos, nreads,
                   ncalls, framerVars, crcVars, blockVars, frameVars>>

(***************************************************************************)
(* Specifications                                                          *)
(***************************************************************************)
InitFramer == FramerInit /\ CrcIdle /\ BlockIdle /\ FrameIdle /\ DecIdle
NextFramer == ExtractPackets
SpecFramer == InitFramer /\ [][NextFramer]_vars

NextCrc == Stamp \/ Verify \/ FlipHeaderBit \/ FlipPayloadBit \/ Crc32cCall
InitCrc == CrcInit /\ FramerIdle /\ BlockIdle /\ FrameIdle /\ DecIdle
SpecCrc == InitCrc /\ [][NextCrc]_vars

InitBlock == BlockInit /\ FramerIdle /\ CrcIdle /\ FrameIdle /\ DecIdle
NextBlock == Synthesise \/ ExtractBlock
SpecBlock == InitBlock /\ [][NextBlock]_vars

InitFrame == FrameInit /\ FramerIdle /\ CrcIdle /\ BlockIdle /\ DecIdle
NextFrame ==
    \/ ExtractStart
    \/ \E t \in Threads : WorkerCompute(t)
    \/ \E t \in Threads : WorkerStore(t)
    \/ ExtractReturn
SpecFrame == InitFrame /\ [][NextFrame]_vars

\* decode_all_frames is sequential code: once entered, its loop keeps running
InitDecoder == DecInit /\ FramerIdle /\ CrcIdle /\ BlockIdle /\ FrameIdle
NextDecoder == CallDecodeNext \/ CallDecodeAll \/ AllIterate \/ AllReturn
SpecDecoder ==
    InitDecoder /\ [][NextDecoder]_vars /\ WF_vars(AllIterate) /\ WF_vars(AllReturn)

(***************************************************************************)
(* Claims about the packet framer (SpecFramer)                             *)
(***************************************************************************)
\* the slice raw[k*ps .. (k+1)*ps), k counted from 0
C1_Slice(r, ps, k) == SubSeq(r, k * ps + 1, (k + 1) * ps)

\* n slices fit inside r and each starts with the little-endian magic
C1_AllGood(r, ps, n) ==
    \A k \in 0..(n - 1) :
        /\ (k + 1) * ps <= Len(r)
        /\ SubSeq(r, k * ps + 1, k * ps + 4) = <<1, 2, 3, 4>>

C1_Count(r, ps) ==
    CHOOSE n \in 0..Len(r) :
        /\ C1_AllGood(r, ps, n)
        /\ \A m \in (n + 1)..Len(r) : ~C1_AllGood(r, ps, m)

\* C1: extract_packets_from_frame returns exactly the slices
\* raw[k*packet_size .. (k+1)*packet_size) for k = 0..n-1, in order, n being
\* the largest number such that each of these slices fits inside raw and
\* starts with MAGIC_ID; nothing located after the first bad aligned offset
\* is returned.
C1_FramerContiguous ==
    fpc = "done" =>
        LET ps == packet_size(raw)
            n  == C1_Count(raw, ps)
        IN  /\ Len(packets) = n
            /\ \A k \in 1..n : packets[k] = C1_Slice(raw, ps, k - 1)

\* a frame with a good packet, a damaged one, and a good aligned packet after it
C1_Witness ==
    /\ fpc = "done"
    /\ Len(packets) >= 1
    /\ LET ps == packet_size(raw)
       IN  \E k \in (Len(packets) + 1)..Len(raw) :
              (k + 1) * ps <= Len(raw) /\ MagicAt(raw, k * ps)

\* HEADER_SIZE(version)
C2_HeaderSizeOf(v) == IF v = VERSION_ID_V2 THEN HEADER_SIZE_V2 ELSE HEADER_SIZE

\* C2 as stated: every returned packet begins with MAGIC_ID and is
\* HEADER_SIZE(its own byte 4) + SYMBOL_SIZE_BYTES long, also in a stream
\* whose packets carry different version bytes.
C2_OwnVersionLength ==
    fpc = "done" =>
        \A i \in 1..Len(packets) :
            /\ SubSeq(packets[i], 1, 4) = MagicLE
            /\ packets[i][5] \in {VERSION_ID, VERSION_ID_V2}
                 => Len(packets[i]) = C2_HeaderSizeOf(packets[i][5]) + SYMBOL_SIZE_BYTES

\* C2 amended: every returned packet begins with MAGIC_ID and is
\* HEADER_SIZE(v0) + SYMBOL_SIZE_BYTES long, v0 being byte 4 of the frame
\* (the first packet's version byte), whatever its own version byte says.
C2_FrameVersionLength ==
    fpc = "done" =>
        \A i \in 1..Len(packets) :
            /\ SubSeq(packets[i], 1, 4) = MagicLE
            /\ Len(packets[i]) = C2_HeaderSizeOf(raw[5]) + SYMBOL_SIZE_BYTES

\* two packets returned, the second with the other version in its byte 4
C2_Witness ==
    /\ fpc = "done"
    /\ Len(packets) >= 2
    /\ packets[1][5] = VERSION_ID_V2
    /\ packets[2][5] = VERSION_ID
    /\ Len(packets[2]) = HEADER_SIZE_V2 + SYMBOL_SIZE_BYTES

\* C3: the packet size is HV2 + SYMBOL_SIZE_BYTES iff raw has at least five
\* bytes and raw[4] = VERSION_ID_V2, and HV1 + SYMBOL_SIZE_BYTES in every
\* other case; an unknown version is no error: the packets found at the V1
\* size are returned.
C3_SizeFromByte4 ==
    fpc = "done" =>
        LET v2 == Len(raw) >= 5 /\ raw[5] = VERSION_ID_V2
            ps == IF v2 THEN HEADER_SIZE_V2 + SYMBOL_SIZE_BYTES
                        ELSE HEADER_SIZE + SYMBOL_SIZE_BYTES
        IN  /\ \A i \in 1..Len(packets) : Len(packets[i]) = ps
            /\ Len(packets) * ps <= Len(raw)
            /\ (Len(raw) >= ps /\ SubSeq(raw, 1, 4) = MagicLE)
                  => (Len(packets) >= 1 /\ packets[1] = SubSeq(raw, 1, ps))
            /\ (Len(raw) < ps \/ SubSeq(raw, 1, 4) # MagicLE) => packets = <<>>

\* an unknown version byte, and packets returned at the V1 size
C3_Witness ==
    /\ fpc = "done"
    /\ Len(raw) >= 5
    /\ raw[5] \notin {VERSION_ID, VERSION_ID_V2}
    /\ Len(packets) >= 2
    /\ Len(packets[2]) = HEADER_SIZE + SYMBOL_SIZE_BYTES

(***************************************************************************)
(* Claims about the CRC primitives (SpecCrc)                               *)
(***************************************************************************)
C4_Fits == crc_offset + 4 <= Len(header)

\* C4 as stated: verify_packet_crc32c returns true iff crc_size = 4, the
\* field fits (crc_offset + 4 <= header.len()) and the stored little-endian
\* word equals packet_crc32c; it returns false, reading nothing outside the
\* header, whenever crc_size # 4 or the field does not fit.
C4_VerifyIff ==
    (cpc \in {"fresh", "stamped", "flipped"} /\ verdict # "none") =>
        IF crc_size = 4 /\ C4_Fits
        THEN verdict =
               (IF WordOfLE(SubSeq(header, crc_offset + 1, crc_offset + 4))
                     = packet_crc32c(header, payload, crc_offset, crc_size)
                THEN "true" ELSE "false")
        ELSE verdict = "false"

\* the header with its checksum field replaced by four zero bytes
C5_Zeroed(h, off) == SubSeq(h, 1, off) \o <<0, 0, 0, 0>> \o SubSeq(h, off + 5, Len(h))

\* C5: packet_crc32c(header, payload, crc_offset, 4) is the CRC-32/MPEG-2 of
\* header[0..crc_offset] ++ four zero bytes ++ header[crc_offset+4..] ++
\* payload, whatever the field holds; a header stamped with it verifies.
C5_StampVerifies ==
    cpc = "stamped" =>
        /\ crcval = CRC_Calculate(C5_Zeroed(header, crc_offset) \o payload)
        /\ packet_crc32c(header, payload, crc_offset, 4) = crcval
        /\ verdict # "none" => verdict = "true"

\* a stamped packet, checksum field strictly inside the header, verified
C5_Witness ==
    /\ cpc = "stamped"
    /\ verdict = "true"
    /\ crc_offset > 0
    /\ crc_offset + 4 < Len(header)
    /\ payload # <<>>
    /\ SubSeq(header, crc_offset + 1, crc_offset + 4) # <<0, 0, 0, 0>>

\* LE(s): the four bytes of s, least significant first
C6_LE(s) == [k \in 1..4 |-> SumBits({i - 8 * (k - 1) : i \in {j \in s : j \div 8 = k - 1}})]

\* C6 as stated: crc32c(data, s) = crc32c(LE(s) ++ data, 0) for any seed s.
C6_SeedIsPrefixAny ==
    cpc = "seeded" => crcval = crc32c(C6_LE(seed) \o payload, {})

\* C6 amended: crc32c(data, s) = crc32c(LE(s) ++ data, 0) for any nonzero
\* seed s (with s = 0 nothing is prepended).
C6_SeedIsPrefixNonzero ==
    (cpc = "seeded" /\ seed # {}) => crcval = crc32c(C6_LE(seed) \o payload, {})

\* crc32c was called with seed 0xFFFFFFFF on a non-empty payload
C6_Witness == cpc = "seeded" /\ seed = Word /\ Len(payload) = 2 /\ crcval # {}

\* C7: from a packet that verifies, one flipped bit of the header (inside or
\* outside the checksum field) or of the payload makes verification fail.
C7_SingleBitDetected ==
    (cpc = "flipped" /\ verdict # "none") => verdict = "false"

\* a bit was flipped in a verified packet and the verifier has answered
C7_Witness ==
    /\ cpc = "flipped" /\ wasValid
    /\ verdict = "false"
    /\ payload # <<>>
    /\ crc_offset + 4 < Len(header)

(***************************************************************************)
(* Claims about one block (SpecBlock)                                      *)
(***************************************************************************)
\* C8: for every pattern p, projecting the precomputed block patterns[p]
\* onto the decoder projections and emitting 1 iff the sum is > 0, most
\* significant bit first, yields p again.
C8_BlockRoundTrip == bpc = "done" => decoded = pattern

\* a mixed pattern came back from a block whose pixels were clamped
C8_Witness ==
    /\ bpc = "done"
    /\ pattern = 6
    /\ decoded = 6
    /\ \E k \in 1..64 : block[k] = 255
    /\ \E k \in 1..64 : block[k] = 0

(***************************************************************************)
(* Claims about extract_data_from_frame (SpecFrame)                        *)
(***************************************************************************)
\* the tile of block k: pixel origin (8 * (k mod BLOCKS_PER_ROW), 8 * (k div BLOCKS_PER_ROW))
C9_Tile(k) ==
    [j \in 1..64 |->
        frame[(8 * (k \div BlocksPerRow) + ((j - 1) \div 8)) * stride
              + 8 * (k % BlocksPerRow) + ((j - 1) % 8) + 1]]

\* the B-bit pattern of a tile: bit b (most significant first) is 1 iff its
\* projection on vector b is positive
C9_Pattern(tile) ==
    8 * (IF dot_product_64(tile, DecoderProjections[0]) > 0 THEN 1 ELSE 0)
    + 4 * (IF dot_product_64(tile, DecoderProjections[1]) > 0 THEN 1 ELSE 0)
    + 2 * (IF dot_product_64(tile, DecoderProjections[2]) > 0 THEN 1 ELSE 0)
    + (IF dot_product_64(tile, DecoderProjections[3]) > 0 THEN 1 ELSE 0)

\* byte i (from 0): the patterns of blocks 2i and 2i + 1, first block high
C9_Byte(i) == 16 * C9_Pattern(C9_Tile(2 * i)) + C9_Pattern(C9_Tile(2 * i + 1))

C9_Bytes == (BlocksPerRow * BlocksPerCol) \div 2

\* C9: under every interleaving of the workers extract_data_from_frame
\* returns exactly BYTES_PER_FRAME bytes, byte i being the MSB-first
\* concatenation of the patterns of its blocks; a worker writes only its own
\* position, so every position holds its initial zero or its final value.
C9_ParallelEqualsSequential ==
    /\ xpc \in {"running", "returned"} =>
          /\ Len(out) = C9_Bytes
          /\ \A i \in 0..(C9_Bytes - 1) : out[i + 1] \in {0, C9_Byte(i)}
    /\ xpc = "returned" =>
          /\ Len(xdata) = C9_Bytes
          /\ \A i \in 0..(C9_Bytes - 1) : xdata[i + 1] = C9_Byte(i)

\* the call returned a payload with distinct non-zero bytes, read from a
\* padded plane
C9_Witness ==
    /\ xpc = "returned"
    /\ stride > 8 * BlocksPerRow
    /\ xdata[1] # 0 /\ xdata[2] # 0 /\ xdata[1] # xdata[2]
    /\ xdata[Len(xdata)] # xdata[1]

(***************************************************************************)
(* Claims about the frame loop (SpecDecoder)                               *)
(***************************************************************************)
\* the packets of the frames among input[from+1 .. to], in order
RECURSIVE C10_Expected(_, _)
C10_Expected(from, to) ==
    IF from >= to THEN <<>>
    ELSE C10_Expected(from, to - 1)
         \o (IF input[to] \in FrameEvents
             THEN extract_packets_from_frame(FrameRaw(input[to])) ELSE <<>>)

C10_FramesUpTo(n) == Cardinality({k \in 1..n : input[k] \in FrameEvents})

C10_NoError(from, to) == \A k \in (from + 1)..to : input[k] # "derr"

\* what holds of decode_all_frames in every state
C10_Order ==
    /\ dpc \in {"in_all", "returned"} => results = C10_Expected(callPos, pos)
    /\ dpc = "returned" =>
          /\ eof_
          /\ C10_NoError(callPos, pos)
          /\ pos = Len(input) \/ input[pos] = "deof"
    /\ dpc # "off" => frame_index_ = C10_FramesUpTo(pos)

\* eof_ is never cleared, and with eof_ set nothing more is read or returned
C10_EofSticks ==
    eof_ => /\ eof_'
            /\ pos' = pos /\ nreads' = nreads /\ frame_index_' = frame_index_
            /\ ncalls' # ncalls => lastRet' = <<>>
            /\ results' \in {results, <<>>}

\* decode_all_frames throws only on a decoder error
C10_ThrowsOnError ==
    (dpc = "in_all" /\ dpc' = "thrown") => input[pos'] = "derr"

\* C10 as stated: whatever the demuxer and the decoder do, decode_all_frames
\* ends by returning the packets of the decoded frames in frame order.
C10_AlwaysReturns ==
    dpc \in {"returned", "thrown"} =>
        (dpc = "returned" /\ results = C10_Expected(callPos, pos))

\* C10 amended: as long as avcodec_receive_frame reports no error other than
\* EAGAIN and EOF, decode_all_frames returns the packets of the decoded
\* frames in frame order (on such an error it throws and returns nothing);
\* frame_index_ counts the frames delivered; eof_ once set stays set and
\* later calls return empty without reading; decode_all_frames ends once
\* the input is exhausted.
C10_FrameOrder ==
    /\ []C10_Order
    /\ [][C10_EofSticks /\ C10_ThrowsOnError]_vars
    /\ (dpc = "in_all") ~> (dpc \in {"returned", "thrown"})

\* decode_all_frames returned the packets of two frames, three packets in all
C10_Witness ==
    /\ dpc = "returned"
    /\ Len(results) = 3
    /\ frame_index_ = 2
    /\ pos = Len(input)

=============================================================================
